---------------------------- MODULE Spec2Model ----------------------------
(***************************************************************************)
(* KursKompass API: the crawl-and-extract engine (scraper.py) and the      *)
(* request handlers that start it on a background thread (app.py).         *)
(*                                                                         *)
(* Every text (a name, a title, an identifier) is a sequence of symbols.    *)
(* A position identifier (root_path) is a sequence over "1", "2", "|" and  *)
(* "%7C"; unquote turns "%7C" into "|", split cuts at "|".  The empty      *)
(* sequence is the empty string.  A tree of BaumKnoten is a set of         *)
(* node records, each carrying its position (the sequence of child         *)
(* indices leading to it), so that the children of the node at p are the   *)
(* nodes at Append(p, 1), Append(p, 2), ... in that order.                 *)
(* The human-readable progress["status"] line is not modelled.             *)
(***************************************************************************)
EXTENDS Integers, Sequences, FiniteSets, TLC

VARIABLES
    reqs,            \* start requests handled so far, in arrival order
    tpc,             \* per start request: where its background thread is
    lock,            \* scraper_lock: 0 when free, else the holding thread
    current_scraper, \* app.config["current_scraper"] is set
    progress,        \* the current scraper's progress dict
    veranstaltungen, \* the current scraper's self.veranstaltungen
    pc,              \* position inside scan_tree / scrape_selected
    root,            \* scan_tree: start_root (NoRoot for None)
    max_depth,       \* _scan_node_recursive: max_depth
    top_nodes,       \* scan_tree: the tree being built
    stack,           \* pending _scan_node_recursive calls, next one first
    soup,            \* the page held between two steps of one node / row
    roots_left,      \* do_scan: start_roots not yet scanned
    all_trees,       \* do_scan: all_trees
    tree_arg,        \* scrape_selected: tree
    selected_paths,  \* scrape_selected: selected_paths
    sstack,          \* pending _scrape_node_recursive calls, next one first
    rows,            \* _scrape_page_veranstaltungen: rows not yet handled
    cur,             \* the node whose page is being scraped, and its path
    user_caches,     \* user_caches[user] = [tree, veranstaltungen]
    files,           \* data/tree_<user>.json, data/veranstaltungen_<user>.json
    lastResp,        \* the response a polling handler has just given
    fetchLog,        \* history: page requests of the current run
    calls,           \* history: _scrape_page_veranstaltungen calls of the run
    lastEmit         \* history: what the last listing row appended

vars == <<reqs, tpc, lock, current_scraper, progress, veranstaltungen, pc,
          root, max_depth, top_nodes, stack, soup, roots_left, all_trees,
          tree_arg, selected_paths, sstack, rows, cur, user_caches, files,
          lastResp, fetchLog, calls, lastEmit>>

-----------------------------------------------------------------------------
(* Text helpers *)

Min(a, b) == IF a < b THEN a ELSE b

Take(s, n) == SubSeq(s, 1, Min(n, Len(s)))

\* s[-n:]
LastN(s, n) == IF Len(s) <= n THEN s ELSE SubSeq(s, Len(s) - n + 1, Len(s))

\* urllib.parse.unquote, on the one escape an identifier carries
unquote(s) == [i \in 1..Len(s) |-> IF s[i] = "%7C" THEN "|" ELSE s[i]]

\* str.split("|"): one more segment than there are delimiters
RECURSIVE split(_)
split(s) ==
    IF \A i \in 1..Len(s) : s[i] # "|"
    THEN <<s>>
    ELSE LET k == CHOOSE i \in 1..Len(s) :
                      s[i] = "|" /\ \A j \in 1..(i - 1) : s[j] # "|"
         IN  <<SubSeq(s, 1, k - 1)>> \o split(SubSeq(s, k + 1, Len(s)))

\* str.startswith
startswith(s, p) == Len(p) <= Len(s) /\ SubSeq(s, 1, Len(p)) = p

\* an identifier written the way the remote system writes it
RECURSIVE Id(_)
Id(segs) ==
    IF Len(segs) = 1 THEN segs[1]
    ELSE Id(SubSeq(segs, 1, Len(segs) - 1)) \o <<"%7C">> \o segs[Len(segs)]

START_ROOT == Id(<< <<"1">>, <<"1">> >>)

NoRoot == <<>>

build_tree_url(root_path) ==
    <<"https://qis.server.uni-frankfurt.de", "/qisserver/rds",
      "?state=wtree&search=1&trex=step", "&root120261=">>
    \o root_path \o <<"&P.vx=kurz">>

-----------------------------------------------------------------------------
(* BaumKnoten and trees *)

BaumKnoten(pos, name, root_path, url, has_v) ==
    [pos |-> pos, name |-> name, root_path |-> root_path, url |-> url,
     has_veranstaltungen |-> has_v]

NodeAt(t, p) == CHOOSE n \in t : n.pos = p

ChildrenOf(t, p) ==
    {n \in t : Len(n.pos) = Len(p) + 1 /\ SubSeq(n.pos, 1, Len(p)) = p}

TopCount(t) == Cardinality({n \in t : Len(n.pos) = 1})

\* the stubs of a children list, placed below position p
Place(p, stubs) ==
    {BaumKnoten(Append(p, i), stubs[i].name, stubs[i].root_path,
                stubs[i].url, FALSE) : i \in 1..Len(stubs)}

\* positions in the order of a list of k children below p
ChildPositions(p, k) == [i \in 1..k |-> Append(p, i)]

\* list.extend on top-level lists: the nodes of t, after the k already there
Shift(t, k) ==
    {[n EXCEPT !.pos = <<n.pos[1] + k>> \o Tail(n.pos)] : n \in t}

extend(all, partial) == all \cup Shift(partial, TopCount(all))

\* tree_to_dict: the list of dicts of the children of position p, each with
\* the list of its own children
RECURSIVE tree_to_dict_at(_, _)
tree_to_dict_at(t, p) ==
    [i \in 1..Cardinality(ChildrenOf(t, p)) |->
        LET n == NodeAt(t, Append(p, i))
        IN  [name |-> n.name, root_path |-> n.root_path,
             has_veranstaltungen |-> n.has_veranstaltungen,
             children |-> tree_to_dict_at(t, Append(p, i))]]

tree_to_dict(t) == tree_to_dict_at(t, <<>>)

\* dict_to_tree: the nodes made of a list of dicts, placed below position p,
\* each with the nodes made of its "children"; the url is written out anew
RECURSIVE dict_to_tree_at(_, _)
dict_to_tree_at(data, p) ==
    UNION {
        {BaumKnoten(Append(p, i), data[i].name, data[i].root_path,
                    <<"https://qis.server.uni-frankfurt.de", "/qisserver/rds",
                      "?state=wtree&search=1&trex=step", "&root120261=">>
                    \o data[i].root_path \o <<"&P.vx=kurz">>,
                    data[i].has_veranstaltungen)}
        \cup dict_to_tree_at(data[i].children, Append(p, i)) :
        i \in 1..Len(data)}

\* a reconstruction that leaves the "children" of the dicts aside
dict_to_tree_flat(data) ==
    dict_to_tree_at([i \in 1..Len(data) |-> [data[i] EXCEPT !.children = <<>>]],
                    <<>>)

dict_to_tree(data) == dict_to_tree_at(data, <<>>)

RECURSIVE count_nodes(_, _)
count_nodes(t, p) ==
    LET k == Cardinality(ChildrenOf(t, p))
        RECURSIVE Sum(_)
        Sum(i) == IF i = 0 THEN 0 ELSE count_nodes(t, Append(p, i)) + Sum(i - 1)
    IN  k + Sum(k)

-----------------------------------------------------------------------------
(* _find_tree_children *)

\* one <a> of a page: class "ueb" or not, href carrying state=wtree or not,
\* the value of its root120261 parameter (empty: no such parameter), its text
Link(ueb, wtree, root_path, name) ==
    [ueb |-> ueb, wtree |-> wtree, root_path |-> root_path, name |-> name]

\* a test of the character prefix only, without the count of segments
IsChildLinkAnyDepth(l, parent_root) ==
    /\ l.ueb
    /\ l.wtree
    /\ l.root_path # <<>>
    /\ startswith(unquote(l.root_path), unquote(parent_root))
    /\ l.name # <<>>
    /\ l.name \notin {<<"kurz">>, <<"mittel">>, <<"lang">>}

IsChildLink(l, parent_root) ==
    LET parent_decoded == unquote(parent_root)
        parent_depth   == Len(split(parent_decoded))
        root_decoded   == unquote(l.root_path)
    IN  /\ l.ueb
        /\ l.wtree
        /\ l.root_path # <<>>
        /\ Len(split(root_decoded)) = parent_depth + 1
        /\ startswith(root_decoded, parent_decoded)
        /\ l.name # <<>>
        /\ l.name \notin {<<"kurz">>, <<"mittel">>, <<"lang">>}

find_tree_children(links, parent_root) ==
    LET kept == SelectSeq(links, LAMBDA l : IsChildLink(l, parent_root))
    IN  [i \in 1..Len(kept) |->
            [name |-> kept[i].name, root_path |-> kept[i].root_path,
             url |-> build_tree_url(kept[i].root_path)]]

-----------------------------------------------------------------------------
(* Pages, progress and the scraper object *)

\* a fetched listing page: its links, whether it shows the table
\* summary "Uebersicht ueber alle Veranstaltungen", and that table's rows
Page(links, ver_table, page_rows) ==
    [links |-> links, ver_table |-> ver_table, rows |-> page_rows]

NoSoup == Page(<<>>, FALSE, <<>>)

SeqsUpTo(S, n) == UNION {[1..k -> S] : k \in 0..n}

Progress(phase, current, total, details) ==
    [phase |-> phase, current |-> current, total |-> total, details |-> details]

\* QISScraper.__init__
IdleProgress == Progress("idle", 0, 0, <<>>)

DetailsCap == 5

\* no polling handler has just answered
NoResp == [route |-> "none", user |-> "", body |-> IdleProgress]

\* a page request and how it ended
Fetched(what, pos, url, ok) == [what |-> what, pos |-> pos, url |-> url, ok |-> ok]

-----------------------------------------------------------------------------
(* PHASE 1: scan_tree and _scan_node_recursive *)

DefaultMaxDepth == 6

RootOf(start_root) == IF start_root # NoRoot THEN start_root ELSE START_ROOT

\* scan_tree, line 110: the progress dict is replaced
scan_tree_begin ==
    /\ pc = "scan_tree"
    /\ progress' = Progress("scan", 0, 0, <<>>)
    /\ fetchLog' = <<>>
    /\ pc' = "scan_root"
    /\ lastResp' = NoResp
    /\ UNCHANGED <<reqs, tpc, lock, current_scraper, veranstaltungen, root,
                   max_depth, top_nodes, stack, soup, roots_left, all_trees,
                   tree_arg, selected_paths, sstack, rows, cur, user_caches,
                   files, calls, lastEmit>>

\* the top-level nodes scan_tree builds from the root page
TopNodes(page, start_root) ==
    LET r     == RootOf(start_root)
        found == find_tree_children(page.links, r)
    IN  IF found = <<>> /\ start_root # NoRoot
        THEN {BaumKnoten(<<1>>, <<"Ausgewaehlter Bereich">>, r, build_tree_url(r),
                         page.ver_table)}
        ELSE Place(<<>>, found)

\* scan_tree, lines 112-129: the root page is fetched and read
scan_tree_root(Pages) ==
    /\ pc = "scan_root"
    /\ LET url == build_tree_url(RootOf(root))
       IN  \/ /\ fetchLog' = Append(fetchLog, Fetched("root", <<>>, url, FALSE))
              /\ progress' = [progress EXCEPT !.phase = "error"]
              /\ top_nodes' = {}
              /\ stack' = <<>>
              /\ pc' = "scan_ret"
           \/ \E page \in Pages :
              /\ fetchLog' = Append(fetchLog, Fetched("root", <<>>, url, TRUE))
              /\ top_nodes' = TopNodes(page, root)
              /\ stack' = [i \in 1..TopCount(TopNodes(page, root)) |->
                              [pos |-> <<i>>, depth |-> 0]]
              /\ pc' = "scan_node"
              /\ UNCHANGED progress
    /\ lastResp' = NoResp
    /\ UNCHANGED <<reqs, tpc, lock, current_scraper, veranstaltungen, root,
                   max_depth, soup, roots_left, all_trees, tree_arg,
                   selected_paths, sstack, rows, cur, user_caches, files,
                   calls, lastEmit>>

\* a depth test that lets the call at the bound through
DepthReachedLate(depth, bound) == depth > bound

\* _scan_node_recursive, line 141
DepthReached(depth, bound) == depth >= bound

\* a page that did not arrive ends the whole crawl
AfterFailureAbort(pending) == <<>>

\* _scan_node_recursive, lines 145-146: a page that did not arrive ends this
\* call only; the calls still pending are made
AfterFailure(pending) == Tail(pending)

\* _scan_node_recursive, lines 141-149: the depth test, the page request, and
\* the counter and log entry of a page that arrived
scan_node(Pages) ==
    /\ pc = "scan_node"
    /\ stack # <<>>
    /\ LET call == stack[1]
           node == NodeAt(top_nodes, call.pos)
       IN  IF DepthReached(call.depth, max_depth)
           THEN /\ stack' = Tail(stack)
                /\ UNCHANGED <<progress, soup, pc, fetchLog>>
           ELSE \/ /\ fetchLog' = Append(fetchLog,
                                    Fetched("node", call.pos, node.url, FALSE))
                   /\ stack' = AfterFailure(stack)
                   /\ UNCHANGED <<progress, soup, pc>>
                \/ \E page \in Pages :
                   /\ fetchLog' = Append(fetchLog,
                                    Fetched("node", call.pos, node.url, TRUE))
                   /\ progress' = [progress EXCEPT
                                     !.current = @ + 1,
                                     !.details = Append(@, node.name)]
                   /\ soup' = page
                   /\ pc' = "scan_node_rest"
                   /\ UNCHANGED stack
    /\ lastResp' = NoResp
    /\ UNCHANGED <<reqs, tpc, lock, current_scraper, veranstaltungen, root,
                   max_depth, top_nodes, roots_left, all_trees, tree_arg,
                   selected_paths, sstack, rows, cur, user_caches, files,
                   calls, lastEmit>>

\* lines 150-151 and 263-264: the log is cut back to its last five entries
Truncate(details) ==
    IF Len(details) > DetailsCap THEN LastN(details, DetailsCap) ELSE details

\* a recursion that hands its own depth on to the children
ChildDepthSame(depth) == depth

\* _scan_node_recursive, line 161: a child is scanned one level deeper
ChildDepth(depth) == depth + 1

\* _scan_node_recursive, lines 150-161: the log is cut, the event flag set,
\* the children attached and their calls made next, in order
scan_node_rest ==
    /\ pc = "scan_node_rest"
    /\ LET call     == stack[1]
           node     == NodeAt(top_nodes, call.pos)
           children == find_tree_children(soup.links, node.root_path)
       IN  /\ progress' = [progress EXCEPT !.details = Truncate(@)]
           /\ top_nodes' =
                (top_nodes \ {node})
                \cup {[node EXCEPT !.has_veranstaltungen = @ \/ soup.ver_table]}
                \cup Place(call.pos, children)
           /\ stack' = [i \in 1..Len(children) |->
                           [pos |-> Append(call.pos, i), depth |-> ChildDepth(call.depth)]]
                       \o Tail(stack)
    /\ soup' = NoSoup
    /\ pc' = "scan_node"
    /\ lastResp' = NoResp
    /\ UNCHANGED <<reqs, tpc, lock, current_scraper, veranstaltungen, root,
                   max_depth, roots_left, all_trees, tree_arg,
                   selected_paths, sstack, rows, cur, user_caches, files,
                   fetchLog, calls, lastEmit>>

\* scan_tree, lines 136-138
scan_tree_end ==
    /\ pc = "scan_node"
    /\ stack = <<>>
    /\ progress' = [progress EXCEPT !.phase = "scan_done"]
    /\ pc' = "scan_ret"
    /\ lastResp' = NoResp
    /\ UNCHANGED <<reqs, tpc, lock, current_scraper, veranstaltungen, root,
                   max_depth, top_nodes, stack, soup, roots_left, all_trees,
                   tree_arg, selected_paths, sstack, rows, cur, user_caches,
                   files, fetchLog, calls, lastEmit>>

-----------------------------------------------------------------------------
(* PHASE 2: listing rows, detail pages and the records they yield *)

\* str.join
RECURSIVE Join(_, _)
Join(parts, sep) ==
    IF parts = <<>> THEN <<>>
    ELSE IF Len(parts) = 1 THEN parts[1]
    ELSE parts[1] \o <<sep>> \o Join(Tail(parts), sep)

\* one <tr> of the listing table: how many <td> it has, whether its first
\* cell holds an a.regular whose href carries state=verpublish, that link's
\* text and href, the texts of the a.klein links, the text of the second cell
Row(ncells, link, link_text, href, dozent_parts, art) ==
    [ncells |-> ncells, link |-> link, link_text |-> link_text, href |-> href,
     dozent_parts |-> dozent_parts, art |-> art]

\* lines 235-242: rows without two cells or without a detail link are skipped
IsEventRow(row) == row.ncells >= 2 /\ row.link

\* lines 255-260: the code is the text before the first colon, if there is one
Kennung(link_text) ==
    IF \E i \in 1..Len(link_text) : link_text[i] = ":"
    THEN LET k == CHOOSE i \in 1..Len(link_text) :
                      link_text[i] = ":" /\ \A j \in 1..(i - 1) : link_text[j] # ":"
         IN  SubSeq(link_text, 1, k - 1)
    ELSE <<>>

Titel(link_text) ==
    IF \E i \in 1..Len(link_text) : link_text[i] = ":"
    THEN LET k == CHOOSE i \in 1..Len(link_text) :
                      link_text[i] = ":" /\ \A j \in 1..(i - 1) : link_text[j] # ":"
         IN  SubSeq(link_text, k + 1, Len(link_text))
    ELSE link_text

TitleCut == 50

\* line 262: f"{titel[:50]}..."
DetailsEntry(titel) == Take(titel, TitleCut) \o <<"...">>

\* one parsed occurrence (a dict of _parse_termine_table, with "" for a
\* missing key), with the group label and lecturer _scrape_detail adds
Termin(gruppe, tag, zeit, rhythmus, raum, dozent) ==
    [gruppe |-> gruppe, tag |-> tag, zeit |-> zeit, rhythmus |-> rhythmus,
     raum |-> raum, dozent |-> dozent]

\* a detail page as _scrape_detail reads it: the basic data (standing for
\* semester, sws, max_teilnehmer, belegung, belegungsfristen, credits,
\* sprache, kuerzel, studiengaenge, kommentar and voraussetzungen, which are
\* all copied alike), the lecturer table, the group headers found (each with
\* its label, the occurrences parsed from the table that follows it, empty
\* when there is none, and the lecturer linked in that table) and the
\* occurrences of the plain schedule table
DetailPage(grund, dozent, headers, termine) ==
    [grund |-> grund, dozent |-> dozent, headers |-> headers, termine |-> termine]

NoDetail == [ok |-> FALSE]

\* _scrape_detail, lines 427-431: the occurrences of one group header
GroupTermine(h) ==
    [i \in 1..Len(h.table) |->
        [h.table[i] EXCEPT
            !.gruppe = h.gruppe,
            !.dozent = IF h.dozent # <<>> /\ h.table[i].dozent = <<>>
                       THEN h.dozent ELSE h.table[i].dozent]]

\* _scrape_detail, lines 391-439: gruppen
RECURSIVE AllGroupTermine(_)
AllGroupTermine(headers) ==
    IF headers = <<>> THEN <<>>
    ELSE GroupTermine(headers[1]) \o AllGroupTermine(Tail(headers))

Gruppen(dp) ==
    IF dp.headers # <<>> THEN AllGroupTermine(dp.headers) ELSE dp.termine

\* _scrape_detail, on a page that arrived
scrape_detail(dp) ==
    LET gruppen == Gruppen(dp)
    IN  [ok |-> TRUE, grund |-> dp.grund, dozent |-> dp.dozent,
         gruppen |-> gruppen,
         tag      |-> IF gruppen # <<>> THEN gruppen[1].tag ELSE <<>>,
         zeit     |-> IF gruppen # <<>> THEN gruppen[1].zeit ELSE <<>>,
         rhythmus |-> IF gruppen # <<>> THEN gruppen[1].rhythmus ELSE <<>>,
         raum     |-> IF gruppen # <<>> THEN gruppen[1].raum ELSE <<>>]

\* the schedule fields g of a record are those of an occurrence
Veranstaltung(pfad, kennung, titel, dozent, art, grund, g, detail_url, weitere) ==
    [pfad |-> pfad, kennung |-> kennung, titel |-> titel, dozent |-> dozent,
     veranstaltungsart |-> art, grund |-> grund, gruppe |-> g.gruppe,
     tag |-> g.tag, zeit |-> g.zeit, rhythmus |-> g.rhythmus, raum |-> g.raum,
     detail_url |-> detail_url, weitere_termine |-> weitere]

\* urljoin(BASE_URL, link["href"])
DetailUrl(href) == <<"https://qis.server.uni-frankfurt.de">> \o href

\* lines 276-281: the row is split into one record per entry of gruppen
SplitsIntoGroups(gruppen) ==
    /\ Len(gruppen) > 1
    /\ \E i \in 1..Len(gruppen) : gruppen[i].gruppe # <<>>

\* _scrape_page_veranstaltungen, lines 268-336: the records of one row
EmitRow(row, path, detail) ==
    LET dozent      == Join(row.dozent_parts, ", ")
        kennung     == IF Kennung(row.link_text) = <<>> /\ path # <<>>
                       THEN path[Len(path)] ELSE Kennung(row.link_text)
        titel       == Titel(row.link_text)
        base_dozent == IF dozent # <<>> THEN dozent
                       ELSE IF detail.ok THEN detail.dozent ELSE <<>>
        gruppen     == IF detail.ok THEN detail.gruppen ELSE <<>>
        grund       == IF detail.ok THEN detail.grund ELSE <<>>
    IN  IF SplitsIntoGroups(gruppen)
        THEN [i \in 1..Len(gruppen) |->
                Veranstaltung(Join(path, " > "), kennung, titel,
                    IF gruppen[i].dozent # <<>> THEN gruppen[i].dozent
                    ELSE base_dozent,
                    row.art, grund, gruppen[i], DetailUrl(row.href), <<>>)]
        ELSE << Veranstaltung(Join(path, " > "), kennung, titel, base_dozent,
                    row.art, grund,
                    [gruppe   |-> IF gruppen # <<>> THEN gruppen[1].gruppe ELSE <<>>,
                     tag      |-> IF detail.ok THEN detail.tag ELSE <<>>,
                     zeit     |-> IF detail.ok THEN detail.zeit ELSE <<>>,
                     rhythmus |-> IF detail.ok THEN detail.rhythmus ELSE <<>>,
                     raum     |-> IF detail.ok THEN detail.raum ELSE <<>>],
                    DetailUrl(row.href),
                    IF Len(gruppen) > 1 THEN Tail(gruppen) ELSE <<>>) >>

NoEmit == [row |-> Row(0, FALSE, <<>>, <<>>, <<>>, <<>>), path |-> <<>>,
           detail |-> NoDetail, recs |-> <<>>, n |-> 0]

NoCur == [pos |-> <<>>, path |-> <<>>]

-----------------------------------------------------------------------------
(* PHASE 2: scrape_selected and _scrape_node_recursive *)

\* the calls for the children of the node at p, in order
ChildCalls(t, p, path) ==
    [i \in 1..Cardinality(ChildrenOf(t, p)) |-> [pos |-> Append(p, i), path |-> path]]

\* scrape_selected, lines 202-203
scrape_selected_begin ==
    /\ pc = "scrape_selected"
    /\ veranstaltungen' = <<>>
    /\ progress' = Progress("scrape", 0, Cardinality(selected_paths), <<>>)
    /\ sstack' = ChildCalls(tree_arg, <<>>, <<>>)
    /\ fetchLog' = <<>>
    /\ calls' = <<>>
    /\ pc' = "scrape_node"
    /\ lastResp' = NoResp
    /\ UNCHANGED <<reqs, tpc, lock, current_scraper, root, max_depth,
                   top_nodes, stack, soup, roots_left, all_trees, tree_arg,
                   selected_paths, rows, cur, user_caches, files, lastEmit>>

\* a walk that takes every node for selected
IsSelectedAll(node, selected) == TRUE

\* _scrape_node_recursive, line 215
IsSelected(node, selected) == node.root_path \in selected

\* _scrape_node_recursive, lines 213-218, and _scrape_page_veranstaltungen,
\* lines 225-233: a selected node's page is fetched and its rows found; an
\* unselected node's children are visited next
scrape_node(Pages) ==
    /\ pc = "scrape_node"
    /\ sstack # <<>>
    /\ LET call         == sstack[1]
           node         == NodeAt(tree_arg, call.pos)
           current_path == Append(call.path, node.name)
       IN  IF IsSelected(node, selected_paths)
           THEN /\ calls' = Append(calls, [pos |-> call.pos, url |-> node.url,
                                           path |-> current_path])
                /\ cur' = [pos |-> call.pos, path |-> current_path]
                /\ pc' = "scrape_rows"
                /\ \/ /\ fetchLog' = Append(fetchLog,
                                       Fetched("page", call.pos, node.url, FALSE))
                      /\ rows' = <<>>
                   \/ \E page \in Pages :
                      /\ fetchLog' = Append(fetchLog,
                                       Fetched("page", call.pos, node.url, TRUE))
                      /\ rows' = IF page.ver_table THEN page.rows ELSE <<>>
                /\ UNCHANGED sstack
           ELSE /\ sstack' = ChildCalls(tree_arg, call.pos, current_path)
                             \o Tail(sstack)
                /\ UNCHANGED <<calls, cur, pc, fetchLog, rows>>
    /\ lastResp' = NoResp
    /\ UNCHANGED <<reqs, tpc, lock, current_scraper, progress,
                   veranstaltungen, root, max_depth, top_nodes, stack, soup,
                   roots_left, all_trees, tree_arg, selected_paths,
                   user_caches, files, lastEmit>>

\* _scrape_page_veranstaltungen, lines 234-262: the next row is skipped, or
\* its title is appended to the log
scrape_row ==
    /\ pc = "scrape_rows"
    /\ rows # <<>>
    /\ IF IsEventRow(rows[1])
       THEN /\ progress' = [progress EXCEPT
                              !.details = Append(@, DetailsEntry(Titel(rows[1].link_text)))]
            /\ pc' = "scrape_detail"
            /\ UNCHANGED rows
       ELSE /\ rows' = Tail(rows)
            /\ UNCHANGED <<progress, pc>>
    /\ lastResp' = NoResp
    /\ UNCHANGED <<reqs, tpc, lock, current_scraper, veranstaltungen, root,
                   max_depth, top_nodes, stack, soup, roots_left, all_trees,
                   tree_arg, selected_paths, sstack, cur, user_caches, files,
                   fetchLog, calls, lastEmit>>

\* _scrape_page_veranstaltungen, lines 263-336: the log is cut, the detail
\* page fetched and read, and the row's records appended
scrape_row_detail(DetailPages) ==
    /\ pc = "scrape_detail"
    /\ \E detail \in {NoDetail} \cup {scrape_detail(dp) : dp \in DetailPages} :
       LET recs == EmitRow(rows[1], cur.path, detail)
       IN  /\ veranstaltungen' = veranstaltungen \o recs
           /\ lastEmit' = [row |-> rows[1], path |-> cur.path, detail |-> detail,
                           recs |-> recs, n |-> Len(veranstaltungen)]
           /\ fetchLog' = Append(fetchLog,
                            Fetched("detail", cur.pos, DetailUrl(rows[1].href), detail.ok))
    /\ progress' = [progress EXCEPT !.details = Truncate(@)]
    /\ rows' = Tail(rows)
    /\ pc' = "scrape_rows"
    /\ lastResp' = NoResp
    /\ UNCHANGED <<reqs, tpc, lock, current_scraper, root, max_depth,
                   top_nodes, stack, soup, roots_left, all_trees, tree_arg,
                   selected_paths, sstack, cur, user_caches, files, calls>>

\* _scrape_node_recursive, lines 219-222: the page is done, the counter
\* moves and the children are visited next
scrape_page_end ==
    /\ pc = "scrape_rows"
    /\ rows = <<>>
    /\ progress' = [progress EXCEPT !.current = @ + 1]
    /\ sstack' = ChildCalls(tree_arg, cur.pos, cur.path) \o Tail(sstack)
    /\ cur' = NoCur
    /\ pc' = "scrape_node"
    /\ lastResp' = NoResp
    /\ UNCHANGED <<reqs, tpc, lock, current_scraper, veranstaltungen, root,
                   max_depth, top_nodes, stack, soup, roots_left, all_trees,
                   tree_arg, selected_paths, rows, user_caches, files,
                   fetchLog, calls, lastEmit>>

\* scrape_selected, lines 208-210
scrape_selected_end ==
    /\ pc = "scrape_node"
    /\ sstack = <<>>
    /\ progress' = [progress EXCEPT !.phase = "done"]
    /\ pc' = "scrape_ret"
    /\ lastResp' = NoResp
    /\ UNCHANGED <<reqs, tpc, lock, current_scraper, veranstaltungen, root,
                   max_depth, top_nodes, stack, soup, roots_left, all_trees,
                   tree_arg, selected_paths, sstack, rows, cur, user_caches,
                   files, fetchLog, calls, lastEmit>>

-----------------------------------------------------------------------------
(* app.py: caches, files, handlers and the background threads *)

Users == {"u1", "u2"}

MaxRequests == 2

\* Python's None where a tree or a list is expected, and a value that is there
None == [some |-> FALSE, val |-> {}]

NoneList == [some |-> FALSE, val |-> <<>>]

Some(v) == [some |-> TRUE, val |-> v]

\* `if cache["tree"]:` is false of None and of the empty list
Truthy(x) == x.some /\ x.val # {}

\* get_user_cache: a user's cache starts as {"tree": None, "veranstaltungen": None}
NoCache == [tree |-> None, veranstaltungen |-> NoneList]

\* no file of the user exists in the data directory
NoFiles == [tree |-> None, veranstaltungen |-> NoneList]

\* history: an earlier request was answered "started" and its run is not over
RunPending == \E i \in 1..Len(reqs) : reqs[i].resp = "started" /\ tpc[i] # "done"

\* history: the crawls accepted for a user so far
CrawlsOf(user) ==
    {i \in 1..Len(reqs) :
        reqs[i].kind = "scan" /\ reqs[i].user = user /\ reqs[i].resp = "started"}

\* history: no crawl was accepted for the user, or one only, of at most one
\* root, which is over and ended in the error phase
NoTreeYet(user) ==
    \/ CrawlsOf(user) = {}
    \/ /\ Cardinality(CrawlsOf(user)) = 1
       /\ \A i \in CrawlsOf(user) :
            /\ tpc[i] = "done"
            /\ reqs[i].ended = "error"
            /\ Len(reqs[i].start_roots) <= 1

\* a start request and its answer; busy, notree and ended are history: what
\* held when it arrived, and the phase its run ended in
Request(kind, user, start_roots, selected, resp) ==
    [kind |-> kind, user |-> user, start_roots |-> start_roots,
     selected |-> selected, resp |-> resp, busy |-> RunPending,
     notree |-> NoTreeYet(user), ended |-> ""]

\* scraper_lock.locked()
Locked == lock # 0

\* api_scan_tree, lines 124-131: a request body is absent (json FALSE) or
\* carries root_paths and root_path, either of which may be empty
StartRoots(body) ==
    IF ~body.json THEN <<>>
    ELSE IF body.root_paths # <<>> THEN body.root_paths
    ELSE IF body.root_path # <<>> THEN <<body.root_path>>
    ELSE <<>>

\* POST /api/scan-tree
api_scan_tree(user, body) ==
    /\ Len(reqs) < MaxRequests
    /\ IF Locked
       THEN /\ reqs' = Append(reqs, Request("scan", user, <<>>, <<>>, "409"))
            /\ tpc' = Append(tpc, "none")
       ELSE /\ reqs' = Append(reqs, Request("scan", user, StartRoots(body), <<>>,
                                            "started"))
            /\ tpc' = Append(tpc, "spawned")
    /\ lastResp' = NoResp
    /\ UNCHANGED <<lock, current_scraper, progress, veranstaltungen, pc,
                   root, max_depth, top_nodes, stack, soup, roots_left,
                   all_trees, tree_arg, selected_paths, sstack, rows, cur,
                   user_caches, files, fetchLog, calls, lastEmit>>

\* api_scrape, lines 194-200: the tree is there, or is loaded from the file
TreeAvailable(user) == Truthy(user_caches[user].tree) \/ files[user].tree.some

\* POST /api/scrape
api_scrape(user, selected) ==
    /\ Len(reqs) < MaxRequests
    /\ IF Locked
       THEN /\ reqs' = Append(reqs, Request("scrape", user, <<>>, selected, "409"))
            /\ tpc' = Append(tpc, "none")
            /\ UNCHANGED user_caches
       ELSE IF selected = <<>>
       THEN /\ reqs' = Append(reqs, Request("scrape", user, <<>>, selected,
                                            "400 selected"))
            /\ tpc' = Append(tpc, "none")
            /\ UNCHANGED user_caches
       ELSE IF ~TreeAvailable(user)
       THEN /\ reqs' = Append(reqs, Request("scrape", user, <<>>, selected,
                                            "400 tree"))
            /\ tpc' = Append(tpc, "none")
            /\ UNCHANGED user_caches
       ELSE /\ reqs' = Append(reqs, Request("scrape", user, <<>>, selected,
                                            "started"))
            /\ tpc' = Append(tpc, "spawned")
            /\ user_caches' =
                 IF Truthy(user_caches[user].tree) THEN user_caches
                 ELSE [user_caches EXCEPT
                         ![user].tree = Some(dict_to_tree(files[user].tree.val))]
    /\ lastResp' = NoResp
    /\ UNCHANGED <<lock, current_scraper, progress, veranstaltungen, pc,
                   root, max_depth, top_nodes, stack, soup, roots_left,
                   all_trees, tree_arg, selected_paths, sstack, rows, cur,
                   files, fetchLog, calls, lastEmit>>

\* a thread body that runs without taking the lock
CanAcquireUnlocked == TRUE

\* `with scraper_lock:` is entered only while the lock is free
CanAcquire == lock = 0

\* do_scan, lines 135-146: the lock is taken, a scraper made and published,
\* and scan_tree called for the first root
do_scan_acquire(t) ==
    /\ t \in 1..Len(reqs)
    /\ reqs[t].kind = "scan"
    /\ tpc[t] = "spawned"
    /\ CanAcquire
    /\ lock' = t
    /\ tpc' = [tpc EXCEPT ![t] = "running"]
    /\ current_scraper' = TRUE
    /\ progress' = IdleProgress
    /\ veranstaltungen' = <<>>
    /\ all_trees' = {}
    /\ root' = IF reqs[t].start_roots # <<>> THEN reqs[t].start_roots[1] ELSE NoRoot
    /\ roots_left' = IF reqs[t].start_roots # <<>> THEN Tail(reqs[t].start_roots) ELSE <<>>
    /\ max_depth' = DefaultMaxDepth
    /\ pc' = "scan_tree"
    /\ fetchLog' = <<>>
    /\ calls' = <<>>
    /\ lastEmit' = NoEmit
    /\ lastResp' = NoResp
    /\ UNCHANGED <<reqs, top_nodes, stack, soup, tree_arg, selected_paths,
                   sstack, rows, cur, user_caches, files>>

\* do_scan, lines 141-146: scan_tree returned; its result is added and the
\* next root scanned, or the tree is complete
do_scan_next ==
    /\ Locked
    /\ reqs[lock].kind = "scan"
    /\ tpc[lock] = "running"
    /\ pc = "scan_ret"
    /\ all_trees' = IF reqs[lock].start_roots # <<>>
                    THEN extend(all_trees, top_nodes) ELSE top_nodes
    /\ top_nodes' = {}
    /\ fetchLog' = <<>>
    /\ IF roots_left # <<>>
       THEN /\ root' = roots_left[1]
            /\ roots_left' = Tail(roots_left)
            /\ pc' = "scan_tree"
            /\ UNCHANGED tpc
       ELSE /\ pc' = "idle"
            /\ tpc' = [tpc EXCEPT ![lock] = "store"]
            /\ UNCHANGED <<root, roots_left>>
    /\ lastResp' = NoResp
    /\ UNCHANGED <<reqs, lock, current_scraper, progress, veranstaltungen,
                   max_depth, stack, soup, tree_arg, selected_paths, sstack,
                   rows, cur, user_caches, files, calls, lastEmit>>

\* do_scan, line 147
do_scan_store ==
    /\ Locked
    /\ reqs[lock].kind = "scan"
    /\ tpc[lock] = "store"
    /\ user_caches' = [user_caches EXCEPT ![reqs[lock].user].tree = Some(all_trees)]
    /\ tpc' = [tpc EXCEPT ![lock] = "write"]
    /\ lastResp' = NoResp
    /\ UNCHANGED <<reqs, lock, current_scraper, progress, veranstaltungen,
                   pc, root, max_depth, top_nodes, stack, soup, roots_left,
                   all_trees, tree_arg, selected_paths, sstack, rows, cur,
                   files, fetchLog, calls, lastEmit>>

\* do_scan, lines 148-150: the tree file is written and the lock released
do_scan_write ==
    /\ Locked
    /\ reqs[lock].kind = "scan"
    /\ tpc[lock] = "write"
    /\ files' = [files EXCEPT ![reqs[lock].user].tree = Some(tree_to_dict(all_trees))]
    /\ tpc' = [tpc EXCEPT ![lock] = "done"]
    /\ reqs' = [reqs EXCEPT ![lock].ended = progress.phase]
    /\ lock' = 0
    /\ all_trees' = {}
    /\ lastResp' = NoResp
    /\ UNCHANGED <<current_scraper, progress, veranstaltungen, pc,
                   root, max_depth, top_nodes, stack, soup, roots_left,
                   tree_arg, selected_paths, sstack, rows, cur, user_caches,
                   fetchLog, calls, lastEmit>>

\* set(selected)
ToSet(seq) == {seq[i] : i \in 1..Len(seq)}

\* do_scrape, lines 203-206: the lock is taken, a scraper made and published,
\* and scrape_selected called on the cached tree
do_scrape_acquire(t) ==
    /\ t \in 1..Len(reqs)
    /\ reqs[t].kind = "scrape"
    /\ tpc[t] = "spawned"
    /\ CanAcquire
    /\ lock' = t
    /\ tpc' = [tpc EXCEPT ![t] = "running"]
    /\ current_scraper' = TRUE
    /\ progress' = IdleProgress
    /\ veranstaltungen' = <<>>
    /\ tree_arg' = user_caches[reqs[t].user].tree.val
    /\ selected_paths' = ToSet(reqs[t].selected)
    /\ pc' = "scrape_selected"
    /\ fetchLog' = <<>>
    /\ calls' = <<>>
    /\ lastEmit' = NoEmit
    /\ lastResp' = NoResp
    /\ UNCHANGED <<reqs, root, max_depth, top_nodes, stack, soup, roots_left,
                   all_trees, sstack, rows, cur, user_caches, files>>

\* do_scrape, lines 207-209
do_scrape_store ==
    /\ Locked
    /\ reqs[lock].kind = "scrape"
    /\ tpc[lock] = "running"
    /\ pc = "scrape_ret"
    /\ user_caches' = [user_caches EXCEPT
                         ![reqs[lock].user].veranstaltungen = Some(veranstaltungen)]
    /\ tpc' = [tpc EXCEPT ![lock] = "write"]
    /\ pc' = "idle"
    /\ tree_arg' = {}
    /\ selected_paths' = {}
    /\ fetchLog' = <<>>
    /\ calls' = <<>>
    /\ lastEmit' = NoEmit
    /\ lastResp' = NoResp
    /\ UNCHANGED <<reqs, lock, current_scraper, progress, veranstaltungen,
                   root, max_depth, top_nodes, stack, soup, roots_left,
                   all_trees, sstack, rows, cur, files>>

\* do_scrape, lines 210-211: the file is written and the lock released
do_scrape_write ==
    /\ Locked
    /\ reqs[lock].kind = "scrape"
    /\ tpc[lock] = "write"
    /\ files' = [files EXCEPT
                   ![reqs[lock].user].veranstaltungen = Some(veranstaltungen)]
    /\ tpc' = [tpc EXCEPT ![lock] = "done"]
    /\ reqs' = [reqs EXCEPT ![lock].ended = progress.phase]
    /\ lock' = 0
    /\ lastResp' = NoResp
    /\ UNCHANGED <<current_scraper, progress, veranstaltungen, pc,
                   root, max_depth, top_nodes, stack, soup, roots_left,
                   all_trees, tree_arg, selected_paths, sstack, rows, cur,
                   user_caches, fetchLog, calls, lastEmit>>

\* GET /api/progress
api_progress ==
    /\ lastResp' = [route |-> "progress", user |-> "",
                    body |-> IF current_scraper THEN progress ELSE IdleProgress]
    /\ UNCHANGED <<reqs, tpc, lock, current_scraper, progress, veranstaltungen,
                   pc, root, max_depth, top_nodes, stack, soup, roots_left,
                   all_trees, tree_arg, selected_paths, sstack, rows, cur,
                   user_caches, files, fetchLog, calls, lastEmit>>

\* GET /api/tree
api_get_tree(user) ==
    /\ IF Truthy(user_caches[user].tree)
       THEN /\ lastResp' = [route |-> "tree", user |-> user,
                            body |-> Some(tree_to_dict(user_caches[user].tree.val))]
            /\ UNCHANGED user_caches
       ELSE IF files[user].tree.some
       THEN /\ lastResp' = [route |-> "tree", user |-> user, body |-> files[user].tree]
            /\ user_caches' = [user_caches EXCEPT
                                 ![user].tree = Some(dict_to_tree(files[user].tree.val))]
       ELSE /\ lastResp' = [route |-> "tree", user |-> user, body |-> None]
            /\ UNCHANGED user_caches
    /\ UNCHANGED <<reqs, tpc, lock, current_scraper, progress, veranstaltungen,
                   pc, root, max_depth, top_nodes, stack, soup, roots_left,
                   all_trees, tree_arg, selected_paths, sstack, rows, cur,
                   files, fetchLog, calls, lastEmit>>

-----------------------------------------------------------------------------
(* The remote catalog: what a page request may return *)

MaxLinks == 2

IdA == Id(<< <<"1">>, <<"1">>, <<"1">> >>)

IdB == Id(<< <<"1">>, <<"1">>, <<"2">> >>)

IdAA == Id(<< <<"1">>, <<"1">>, <<"1">>, <<"1">> >>)

LinkA == Link(TRUE, TRUE, IdA, <<"A">>)

LinkB == Link(TRUE, TRUE, IdB, <<"B">>)

LinkAA == Link(TRUE, TRUE, IdAA, <<"AA">>)

\* the listing-length selector of a page, a link that is never a category
LinkKurz == Link(TRUE, TRUE, IdB, <<"kurz">>)

TreePages(links) ==
    {Page(l, b, <<>>) : l \in SeqsUpTo(links, MaxLinks), b \in BOOLEAN}

RowK == Row(2, TRUE, <<"K", ":", "T">>, <<"/d1">>, <<>>, <<"Vorlesung">>)

RowT == Row(2, TRUE, <<"T">>, <<"/d2">>, << <<"LDoz">> >>, <<"Seminar">>)

RowHead == Row(1, FALSE, <<>>, <<>>, <<>>, <<>>)

T1 == Termin(<<>>, <<"Mo">>, <<"8-10">>, <<"woech">>, <<"R1">>, <<>>)

T2 == Termin(<<>>, <<"Di">>, <<"10-12">>, <<"14t">>, <<"R2">>, <<>>)

Header(gruppe, table, dozent) == [gruppe |-> gruppe, table |-> table, dozent |-> dozent]

-----------------------------------------------------------------------------
(* Spec: the server.  Requests arrive in any order; each accepted one runs  *)
(* on its own thread.                                                       *)

\* the catalog the server runs against: one category below the start root,
\* which lists the same sub-category twice; every page carries the whole
\* navigation
Chain(k) == Id([i \in 1..(k + 2) |-> <<"1">>])

ChainLink(k) == Link(TRUE, TRUE, Chain(k), <<"L", "1">>)

CatalogLinks == <<ChainLink(1), ChainLink(2), ChainLink(2)>>

PagesSrv == { Page(CatalogLinks, TRUE, <<>>) }

ScanBodies ==
    { [json |-> FALSE, root_paths |-> <<>>, root_path |-> <<>>],
      [json |-> TRUE, root_paths |-> <<>>, root_path |-> Chain(1)],
      [json |-> TRUE, root_paths |-> <<Chain(2), Chain(2)>>, root_path |-> <<>>] }

Selections == { <<>>, <<Chain(2), Chain(2)>> }


ListingsSrv == { Page(<<>>, FALSE, <<>>), Page(<<>>, TRUE, <<RowHead, RowK>>) }

DetailPagesSrv ==
    { DetailPage(<<"WS">>, <<"DDoz">>,
                 <<Header(<<"Gruppe 1">>, <<T1>>, <<>>), Header(<<"Gruppe 2">>, <<T2>>, <<>>)>>,
                 <<>>) }

InitIdle ==
    /\ reqs = <<>>
    /\ tpc = <<>>
    /\ lock = 0
    /\ current_scraper = FALSE
    /\ progress = IdleProgress
    /\ veranstaltungen = <<>>
    /\ pc = "idle"
    /\ root = NoRoot
    /\ max_depth = DefaultMaxDepth
    /\ top_nodes = {}
    /\ stack = <<>>
    /\ soup = NoSoup
    /\ roots_left = <<>>
    /\ all_trees = {}
    /\ tree_arg = {}
    /\ selected_paths = {}
    /\ sstack = <<>>
    /\ rows = <<>>
    /\ cur = NoCur
    /\ user_caches = [u \in Users |-> NoCache]
    /\ files = [u \in Users |-> NoFiles]
    /\ lastResp = NoResp
    /\ fetchLog = <<>>
    /\ calls = <<>>
    /\ lastEmit = NoEmit

Init == InitIdle

Next ==
    \/ \E u \in Users, body \in ScanBodies : api_scan_tree(u, body)
    \/ \E u \in Users, sel \in Selections : api_scrape(u, sel)
    \/ api_progress
    \/ \E u \in Users : api_get_tree(u)
    \/ \E t \in 1..MaxRequests : do_scan_acquire(t)
    \/ scan_tree_begin
    \/ scan_tree_root(PagesSrv)
    \/ scan_node(PagesSrv)
    \/ scan_node_rest
    \/ scan_tree_end
    \/ do_scan_next
    \/ do_scan_store
    \/ do_scan_write
    \/ \E t \in 1..MaxRequests : do_scrape_acquire(t)
    \/ scrape_selected_begin
    \/ scrape_node(ListingsSrv)
    \/ scrape_row
    \/ scrape_row_detail(DetailPagesSrv)
    \/ scrape_page_end
    \/ scrape_selected_end
    \/ do_scrape_store
    \/ do_scrape_write

Spec == Init /\ [][Next]_vars

-----------------------------------------------------------------------------
(* SpecRun: one published scraper running scan_tree, from any root and with *)
(* any depth bound, or scrape_selected, on any tree and selection, against  *)
(* a remote that may answer each request with any page or not at all,       *)
(* while /api/progress is polled.                                           *)

MaxDepthBound == 2

MaxNodes == 3

PagesRun == TreePages({LinkA, LinkB, LinkAA, LinkKurz})

RootsRun == {NoRoot, IdA}

ListingsRun == { Page(<<>>, FALSE, <<RowK>>), Page(<<>>, TRUE, <<RowHead, RowK>>) }

DetailPagesRun ==
    { DetailPage(<<"WS">>, <<"DDoz">>,
                 <<Header(<<"Gruppe 1">>, <<T1>>, <<>>), Header(<<"Gruppe 2">>, <<T2>>, <<>>)>>,
                 <<>>) }

\* the shapes of the trees with at most n nodes
RECURSIVE Shapes(_)
Shapes(n) ==
    IF n = 0 THEN {{}}
    ELSE LET S == Shapes(n - 1)
             Grow(sh) ==
                 {sh \cup {Append(p, Cardinality(
                      {q \in sh : Len(q) = Len(p) + 1 /\ SubSeq(q, 1, Len(p)) = p}) + 1)} :
                  p \in sh \cup {<<>>}}
         IN  S \cup UNION {Grow(sh) : sh \in S}

NodeKinds == { [name |-> <<"A">>, id |-> IdA], [name |-> <<"B">>, id |-> IdB] }

TreesOver(shape) ==
    {{BaumKnoten(p, f[p].name, f[p].id, build_tree_url(f[p].id), FALSE) : p \in shape} :
     f \in [shape -> NodeKinds]}

TreesRun == UNION {TreesOver(sh) : sh \in Shapes(MaxNodes)}

InitScanRun ==
    /\ reqs = <<>>
    /\ tpc = <<>>
    /\ lock = 0
    /\ current_scraper = TRUE
    /\ progress = IdleProgress
    /\ veranstaltungen = <<>>
    /\ pc = "scan_tree"
    /\ root \in RootsRun
    /\ max_depth \in 0..MaxDepthBound
    /\ top_nodes = {}
    /\ stack = <<>>
    /\ soup = NoSoup
    /\ roots_left = <<>>
    /\ all_trees = {}
    /\ tree_arg = {}
    /\ selected_paths = {}
    /\ sstack = <<>>
    /\ rows = <<>>
    /\ cur = NoCur
    /\ user_caches = [u \in Users |-> NoCache]
    /\ files = [u \in Users |-> NoFiles]
    /\ lastResp = NoResp
    /\ fetchLog = <<>>
    /\ calls = <<>>
    /\ lastEmit = NoEmit

InitScrapeRun ==
    /\ reqs = <<>>
    /\ tpc = <<>>
    /\ lock = 0
    /\ current_scraper = TRUE
    /\ progress = IdleProgress
    /\ veranstaltungen = <<>>
    /\ pc = "scrape_selected"
    /\ root = NoRoot
    /\ max_depth = DefaultMaxDepth
    /\ top_nodes = {}
    /\ stack = <<>>
    /\ soup = NoSoup
    /\ roots_left = <<>>
    /\ all_trees = {}
    /\ tree_arg \in TreesRun
    /\ selected_paths \in SUBSET {IdA, IdB}
    /\ sstack = <<>>
    /\ rows = <<>>
    /\ cur = NoCur
    /\ user_caches = [u \in Users |-> NoCache]
    /\ files = [u \in Users |-> NoFiles]
    /\ lastResp = NoResp
    /\ fetchLog = <<>>
    /\ calls = <<>>
    /\ lastEmit = NoEmit

InitRun == InitScanRun \/ InitScrapeRun

NextRun ==
    \/ api_progress
    \/ scan_tree_begin
    \/ scan_tree_root(PagesRun)
    \/ scan_node(PagesRun)
    \/ scan_node_rest
    \/ scan_tree_end
    \/ scrape_selected_begin
    \/ scrape_node(ListingsRun)
    \/ scrape_row
    \/ scrape_row_detail(DetailPagesRun)
    \/ scrape_page_end
    \/ scrape_selected_end

SpecRun == InitRun /\ [][NextRun]_vars

\* the steps of the run itself: all of NextRun but the poll
RunStep ==
    \/ scan_tree_begin
    \/ scan_tree_root(PagesRun)
    \/ scan_node(PagesRun)
    \/ scan_node_rest
    \/ scan_tree_end
    \/ scrape_selected_begin
    \/ scrape_node(ListingsRun)
    \/ scrape_row
    \/ scrape_row_detail(DetailPagesRun)
    \/ scrape_page_end
    \/ scrape_selected_end

\* the thread of a run is scheduled again and again, and every page request
\* returns (requests.get has a timeout): a run that can take a step takes one
SpecRunFair == SpecRun /\ WF_vars(RunStep)

-----------------------------------------------------------------------------
(* SpecRow: _scrape_page_veranstaltungen on one listing row of a selected   *)
(* node, for any row and any detail page.                                   *)

MaxTermine == 2

MaxHeaders == 2

RowsRow ==
    { RowK, RowT, RowHead,
      Row(2, TRUE, <<"T">>, <<"/d3">>, <<>>, <<"Uebung">>),
      Row(2, FALSE, <<"T">>, <<"/d4">>, <<>>, <<"Uebung">>) }

Tables == SeqsUpTo({T1, T2}, MaxTermine)

\* the first group names its lecturer in its table, the second does not
HeadersRow ==
    {Header(<<"Gruppe 1">>, t, <<"GDoz">>) : t \in Tables}
    \cup {Header(<<"Gruppe 2">>, t, <<>>) : t \in Tables}

DetailPagesRow ==
    {DetailPage(<<"WS">>, d, h, <<T2>>) :
        d \in {<<>>, <<"DDoz">>}, h \in SeqsUpTo(HeadersRow, MaxHeaders) \ {<<>>}}
    \cup {DetailPage(<<"WS">>, d, <<>>, t) : d \in {<<>>, <<"DDoz">>}, t \in Tables}

RowNode == BaumKnoten(<<1>>, <<"A">>, IdA, build_tree_url(IdA), TRUE)

InitRow ==
    /\ reqs = <<>>
    /\ tpc = <<>>
    /\ lock = 0
    /\ current_scraper = TRUE
    /\ progress = Progress("scrape", 0, 1, <<>>)
    /\ veranstaltungen = <<>>
    /\ pc = "scrape_rows"
    /\ root = NoRoot
    /\ max_depth = DefaultMaxDepth
    /\ top_nodes = {}
    /\ stack = <<>>
    /\ soup = NoSoup
    /\ roots_left = <<>>
    /\ all_trees = {}
    /\ tree_arg = {RowNode}
    /\ selected_paths = {IdA}
    /\ sstack = <<[pos |-> <<1>>, path |-> <<>>]>>
    /\ \E r \in RowsRow : rows = <<r>>
    /\ cur = [pos |-> <<1>>, path |-> <<RowNode.name>>]
    /\ user_caches = [u \in Users |-> NoCache]
    /\ files = [u \in Users |-> NoFiles]
    /\ lastResp = NoResp
    /\ fetchLog = <<Fetched("page", <<1>>, RowNode.url, TRUE)>>
    /\ calls = <<[pos |-> <<1>>, url |-> RowNode.url, path |-> <<RowNode.name>>]>>
    /\ lastEmit = NoEmit

NextRow ==
    \/ scrape_row
    \/ scrape_row_detail(DetailPagesRow)
    \/ scrape_page_end
    \/ scrape_selected_end

SpecRow == InitRow /\ [][NextRow]_vars

-----------------------------------------------------------------------------
(* SpecTree: tree_to_dict and dict_to_tree, on any tree the program can     *)
(* build: one is applied to the tree, the other to what the first gave.     *)

NodeKindsIO ==
    { [name |-> k.name, id |-> k.id, has_v |-> b] : k \in NodeKinds, b \in BOOLEAN }

TreesIO ==
    UNION { {{BaumKnoten(p, f[p].name, f[p].id, build_tree_url(f[p].id), f[p].has_v) :
                p \in shape} : f \in [shape -> NodeKindsIO]} :
            shape \in Shapes(MaxNodes) }

InitTree ==
    /\ reqs = <<>>
    /\ tpc = <<>>
    /\ lock = 0
    /\ current_scraper = FALSE
    /\ progress = IdleProgress
    /\ veranstaltungen = <<>>
    /\ pc = "tree_to_dict"
    /\ root = NoRoot
    /\ max_depth = DefaultMaxDepth
    /\ top_nodes = {}
    /\ stack = <<>>
    /\ soup = NoSoup
    /\ roots_left = <<>>
    /\ all_trees = {}
    /\ tree_arg \in TreesIO
    /\ selected_paths = {}
    /\ sstack = <<>>
    /\ rows = <<>>
    /\ cur = NoCur
    /\ user_caches = [u \in Users |-> NoCache]
    /\ files = [u \in Users |-> NoFiles]
    /\ lastResp = NoResp
    /\ fetchLog = <<>>
    /\ calls = <<>>
    /\ lastEmit = NoEmit

\* tree_to_dict(tree), as do_scan hands it to json.dump
apply_tree_to_dict ==
    /\ pc = "tree_to_dict"
    /\ files' = [files EXCEPT !["u1"].tree = Some(tree_to_dict(tree_arg))]
    /\ pc' = "dict_to_tree"
    /\ UNCHANGED <<reqs, tpc, lock, current_scraper, progress, veranstaltungen,
                   root, max_depth, top_nodes, stack, soup, roots_left,
                   all_trees, tree_arg, selected_paths, sstack, rows, cur,
                   user_caches, lastResp, fetchLog, calls, lastEmit>>

\* dict_to_tree(json.load(f)), as api_scrape puts it into the cache
apply_dict_to_tree ==
    /\ pc = "dict_to_tree"
    /\ user_caches' = [user_caches EXCEPT
                         !["u1"].tree = Some(dict_to_tree(files["u1"].tree.val))]
    /\ pc' = "tree_ret"
    /\ UNCHANGED <<reqs, tpc, lock, current_scraper, progress, veranstaltungen,
                   root, max_depth, top_nodes, stack, soup, roots_left,
                   all_trees, tree_arg, selected_paths, sstack, rows, cur,
                   files, lastResp, fetchLog, calls, lastEmit>>

NextTree ==
    \/ apply_tree_to_dict
    \/ apply_dict_to_tree

SpecTree == InitTree /\ [][NextTree]_vars

-----------------------------------------------------------------------------
(* SpecFind: _find_tree_children as scan_tree applies it, to the root and   *)
(* to the nodes found on its page, over links whose identifiers share       *)
(* characters but not segments.                                             *)

\* 1|1|12, a sibling of 1|1|1 that begins with the same characters
IdLong == Id(<< <<"1">>, <<"1">>, <<"1", "2">> >>)

\* 1|1|12|1
IdLongChild == Id(<< <<"1">>, <<"1">>, <<"1", "2">>, <<"1">> >>)

LinkLong == Link(TRUE, TRUE, IdLong, <<"L">>)

LinkLongChild == Link(TRUE, TRUE, IdLongChild, <<"LC">>)

\* 1|1|1|2 with its pipes written as they are
LinkPipe == Link(TRUE, TRUE, <<"1", "|", "1", "|", "1", "|", "2">>, <<"AB">>)

PagesFind ==
    {Page(l, FALSE, <<>>) :
        l \in SeqsUpTo({LinkA, LinkLong, LinkAA, LinkLongChild, LinkPipe}, MaxLinks)}

InitFind ==
    /\ reqs = <<>>
    /\ tpc = <<>>
    /\ lock = 0
    /\ current_scraper = TRUE
    /\ progress = IdleProgress
    /\ veranstaltungen = <<>>
    /\ pc = "scan_tree"
    /\ root \in {NoRoot, IdA}
    /\ max_depth = 1
    /\ top_nodes = {}
    /\ stack = <<>>
    /\ soup = NoSoup
    /\ roots_left = <<>>
    /\ all_trees = {}
    /\ tree_arg = {}
    /\ selected_paths = {}
    /\ sstack = <<>>
    /\ rows = <<>>
    /\ cur = NoCur
    /\ user_caches = [u \in Users |-> NoCache]
    /\ files = [u \in Users |-> NoFiles]
    /\ lastResp = NoResp
    /\ fetchLog = <<>>
    /\ calls = <<>>
    /\ lastEmit = NoEmit

NextFind ==
    \/ scan_tree_begin
    \/ scan_tree_root(PagesFind)
    \/ scan_node(PagesFind)
    \/ scan_node_rest
    \/ scan_tree_end

SpecFind == InitFind /\ [][NextFind]_vars

-----------------------------------------------------------------------------
\* Properties of the server (Spec)

\* the threads that are inside `with scraper_lock`
Inside == {t \in 1..Len(tpc) : tpc[t] \in {"running", "store", "write"}}

\* C1: at any moment at most one background task is executing scan_tree or
\* scrape_selected: at most one thread is inside the lock, it is the holder,
\* and the run in progress (pc) belongs to it
C1_OneTaskAtATime ==
    /\ Cardinality(Inside) <= 1
    /\ \A t \in Inside : lock = t
    /\ pc # "idle" => \E t \in Inside : tpc[t] = "running"

\* C1, its case: one task is running a crawl while a second task, already
\* started, waits for the lock
C1_Witness ==
    \E t, w \in 1..Len(tpc) :
        /\ tpc[t] = "running"
        /\ pc = "scan_node"
        /\ tpc[w] = "spawned"

\* C2: a start request that arrives after an earlier one was answered
\* "started" and before that run is over is answered 409 and starts no task;
\* no second run waits for the lock while a run holds it
C2_BusyRejected ==
    /\ \A j \in 1..Len(reqs) :
         reqs[j].busy => reqs[j].resp = "409" /\ tpc[j] = "none"
    /\ \A t \in 1..Len(tpc) : tpc[t] = "spawned" => Inside = {}

\* C6: in every stored tree no two nodes have the same root_path, whatever
\* root was asked for and whatever links the fetched pages hold
C6_UniqueRootPaths ==
    \A u \in Users :
        user_caches[u].tree.some =>
            \A n1, n2 \in user_caches[u].tree.val :
                n1.root_path = n2.root_path => n1 = n2

\* C8: a start-scrape request with a non-empty selection from a caller who
\* has no tree (no crawl was ever run for them, or their only crawl ended in
\* the error phase) is answered with the missing-tree error and starts no
\* task; a request answered 409 because a run holds the lock is left aside
C8_NoTreeRejected ==
    \A j \in 1..Len(reqs) :
        (/\ reqs[j].kind = "scrape"
         /\ reqs[j].selected # <<>>
         /\ reqs[j].notree
         /\ reqs[j].resp # "409")
        => reqs[j].resp = "400 tree" /\ tpc[j] = "none"

\* C14: when a poll reports phase "scan_done", the crawl that was
\* acknowledged is over: no root is left to scan, the lock is free, and every
\* crawl that was begun has ended with its tree in its caller's cache
C14_ScanDoneIsFinal ==
    (lastResp.route = "progress" /\ lastResp.body.phase = "scan_done") =>
        /\ roots_left = <<>>
        /\ lock = 0
        /\ \A j \in 1..Len(reqs) :
             (reqs[j].kind = "scan" /\ reqs[j].resp = "started"
                /\ tpc[j] # "spawned") =>
                /\ tpc[j] = "done"
                /\ user_caches[reqs[j].user].tree.some

\* C15: a crawl of one root, with no request sent while a run was pending, whose
\* root page cannot be fetched (its scan_tree ended in phase "error") leaves
\* the tree its caller had stored before as it was, in the cache and in the
\* file
C15_FailedCrawlKeepsTree ==
    [][(/\ lock # 0
        /\ reqs[lock].kind = "scan"
        /\ \A j \in 1..Len(reqs) : ~reqs[j].busy
        /\ Len(reqs[lock].start_roots) <= 1
        /\ progress.phase = "error")
       => LET u == reqs[lock].user
          IN  /\ Truthy(user_caches[u].tree) =>
                   user_caches'[u].tree = user_caches[u].tree
              /\ (files[u].tree.some /\ files[u].tree.val # <<>>) =>
                   files'[u].tree = files[u].tree]_vars

-----------------------------------------------------------------------------
\* Properties of one run (SpecRun)

\* C3: the progress log never holds more than five entries, in the scraper's
\* own state and in every answer a poll gets
C3_DetailsCapped ==
    /\ Len(progress.details) <= DetailsCap
    /\ lastResp.route = "progress" => Len(lastResp.body.details) <= DetailsCap

\* the page requests logged for the node at position p
FetchesOf(what, p) ==
    {i \in 1..Len(fetchLog) : fetchLog[i].what = what /\ fetchLog[i].pos = p}

\* the requests of that kind that failed
Failed(what) ==
    {i \in 1..Len(fetchLog) : fetchLog[i].what = what /\ ~fetchLog[i].ok}

\* a crawl whose root page arrived is over
ScanOver == pc = "scan_ret" /\ fetchLog # <<>> /\ fetchLog[1].ok

\* in a crawl, every node above the depth bound had its page requested, and
\* the crawl ended in scan_done
C7_ScanGoesOn ==
    ScanOver =>
        /\ progress.phase = "scan_done"
        /\ \A n \in top_nodes :
             Len(n.pos) <= max_depth => FetchesOf("node", n.pos) # {}

\* in a harvest, every selected node had its page requested, and a node whose
\* page did not arrive gave no detail request, hence no record
C7_ScrapeGoesOn ==
    pc = "scrape_ret" =>
        /\ progress.phase = "done"
        /\ \A n \in tree_arg :
             n.root_path \in selected_paths => FetchesOf("page", n.pos) # {}
        /\ \A i \in Failed("page") : FetchesOf("detail", fetchLog[i].pos) = {}
        /\ (\A i \in 1..Len(fetchLog) : ~fetchLog[i].ok) => veranstaltungen = <<>>

\* C7: a page of a child that does not arrive does not end the run. In a
\* crawl the siblings are still fetched and the run ends in scan_done; the
\* node whose page failed stays in the tree, where its parent's page put it,
\* without children. In a harvest a selected node whose page fails gives no
\* records and the other selected nodes are still scraped.
C7_FailureTolerated ==
    /\ C7_ScanGoesOn
    /\ ScanOver =>
         \A i \in Failed("node") :
            /\ \E n \in top_nodes : n.pos = fetchLog[i].pos
            /\ ChildrenOf(top_nodes, fetchLog[i].pos) = {}
    /\ C7_ScrapeGoesOn

\* C7 as first stated: the node whose page failed is absent from the tree
C7_FailedNodeAbsent ==
    /\ C7_ScanGoesOn
    /\ ScanOver =>
         \A i \in Failed("node") : ~\E n \in top_nodes : n.pos = fetchLog[i].pos
    /\ C7_ScrapeGoesOn

\* C7, its case: a crawl is over in which the page of a node failed and the
\* page of a later sibling arrived
C7_Witness ==
    /\ ScanOver
    /\ \E i \in Failed("node") : \E j \in (i + 1)..Len(fetchLog) :
         /\ fetchLog[j].what = "node"
         /\ fetchLog[j].ok
         /\ Len(fetchLog[j].pos) = Len(fetchLog[i].pos)
         /\ \A k \in 1..(Len(fetchLog[i].pos) - 1) :
              fetchLog[j].pos[k] = fetchLog[i].pos[k]

\* a crawl is under way or over
InScan == pc \in {"scan_root", "scan_node", "scan_node_rest", "scan_ret"}

\* C9: the depth bound is tested before any request. A node at depth >=
\* max_depth (its position is longer than max_depth) has no page request, no
\* children and no event flag of its own page; the counter counts the pages
\* that arrived and nothing else; with max_depth 0 the tree is the children
\* found on the root page, and counter and log stay as they were set
C9_DepthBound ==
    InScan =>
        /\ \A n \in top_nodes :
             Len(n.pos) > max_depth =>
                /\ FetchesOf("node", n.pos) = {}
                /\ ChildrenOf(top_nodes, n.pos) = {}
                /\ n.has_veranstaltungen => n.name = <<"Ausgewaehlter Bereich">>
        /\ progress.current
             = Cardinality({i \in 1..Len(fetchLog) :
                               fetchLog[i].what = "node" /\ fetchLog[i].ok})
        /\ max_depth = 0 =>
             /\ \A n \in top_nodes : Len(n.pos) = 1
             /\ \A i \in 1..Len(fetchLog) : fetchLog[i].what = "root"
             /\ progress.current = 0
             /\ progress.details = <<>>

\* C9, its case: a crawl with max_depth 0 is over and found two nodes
C9_Witness ==
    /\ pc = "scan_ret"
    /\ max_depth = 0
    /\ progress.phase = "scan_done"
    /\ Cardinality(top_nodes) = 2

\* position p comes before q in a depth-first walk in child order
Before(p, q) ==
    \/ Len(p) < Len(q) /\ SubSeq(q, 1, Len(p)) = p
    \/ \E k \in 1..Min(Len(p), Len(q)) :
         /\ p[k] < q[k]
         /\ \A j \in 1..(k - 1) : p[j] = q[j]

\* the positions of S in the order of that walk
RECURSIVE PreOrder(_)
PreOrder(S) ==
    IF S = {} THEN <<>>
    ELSE LET first == CHOOSE p \in S : \A q \in S \ {p} : Before(p, q)
         IN  <<first>> \o PreOrder(S \ {first})

\* the names of the ancestors of the node at p, top-down, and its own
Breadcrumb(t, p) == [i \in 1..Len(p) |-> NodeAt(t, SubSeq(p, 1, i)).name]

\* the extraction calls a harvest of tree_arg has to make, in order
ExpectedCalls ==
    LET order == PreOrder({n.pos : n \in {m \in tree_arg :
                                            m.root_path \in selected_paths}})
    IN  [i \in 1..Len(order) |->
            [pos |-> order[i], url |-> NodeAt(tree_arg, order[i]).url,
             path |-> Breadcrumb(tree_arg, order[i])]]

\* C10: scrape_selected walks the whole tree depth-first in child order,
\* whether a node is selected or not: the extraction calls made so far are
\* the first of those expected, and at the end they are exactly one per node
\* whose root_path is selected, in walk order, each with the breadcrumb of
\* its ancestors' names and its own, and "current" is their number
C10_Walk ==
    /\ Len(calls) <= Len(ExpectedCalls)
    /\ calls = SubSeq(ExpectedCalls, 1, Len(calls))
    /\ pc = "scrape_ret" =>
         /\ calls = ExpectedCalls
         /\ progress.current = Len(ExpectedCalls)

\* C10, its case: a harvest is over in which a selected node below an
\* unselected parent was scraped, with other nodes selected besides
C10_Witness ==
    /\ pc = "scrape_ret"
    /\ Len(calls) >= 2
    /\ \E i \in 1..Len(calls) :
         /\ Len(calls[i].pos) = 2
         /\ NodeAt(tree_arg, <<calls[i].pos[1]>>).root_path \notin selected_paths

\* the number of pipe-delimited segments of a decoded identifier
Segments(root_path) == Len(split(unquote(root_path)))

\* the node scan_tree makes of the root itself when its page lists no child
IsPlaceholder(n) ==
    /\ Len(n.pos) = 1
    /\ n.name = <<"Ausgewaehlter Bereich">>
    /\ n.root_path = RootOf(root)

\* C11: in the tree of a crawl, every node below the top level has exactly
\* one segment more than its parent, and every top-level node found on the
\* root page has exactly one segment more than the root identifier
C11_OneMoreSegment ==
    InScan =>
        \A n \in top_nodes :
            /\ Len(n.pos) >= 2 =>
                 Segments(n.root_path)
                   = Segments(NodeAt(top_nodes,
                                SubSeq(n.pos, 1, Len(n.pos) - 1)).root_path) + 1
            /\ (Len(n.pos) = 1 /\ ~IsPlaceholder(n)) =>
                 Segments(n.root_path) = Segments(RootOf(root)) + 1

\* C11, its case: a crawl from the default root is over whose tree has a node
\* below the top level
C11_Witness ==
    /\ pc = "scan_ret"
    /\ root = NoRoot
    /\ \E n \in top_nodes : Len(n.pos) = 2

\* in a crawl, the depth handed to a call is the level of its node, and no
\* page of a node at depth >= max_depth was requested
DepthGrows ==
    InScan =>
        /\ \A i \in 1..Len(stack) : stack[i].depth = Len(stack[i].pos) - 1
        /\ \A i \in 1..Len(fetchLog) :
             fetchLog[i].what = "node" => Len(fetchLog[i].pos) - 1 < max_depth

\* C13: scan_tree terminates, whatever the pages list (the same links again
\* and again, links of any level): depth grows by one with every level of
\* the recursion, no node is fetched at depth >= the bound, and a crawl that
\* was begun reaches phase scan_done or error
C13_ScanTerminates ==
    /\ []DepthGrows
    /\ (pc = "scan_tree") ~>
         (pc = "scan_ret" /\ progress.phase \in {"scan_done", "error"})

\* C13, its case: a crawl is over that went down to the depth bound through
\* pages that listed the same link more than once
C13_Witness ==
    /\ pc = "scan_ret"
    /\ progress.phase = "scan_done"
    /\ max_depth >= 1
    /\ \E n, m \in top_nodes :
         /\ n.pos # m.pos
         /\ n.root_path = m.root_path
         /\ Len(n.pos) = max_depth + 1

\* a harvest is under way or over
InScrape == pc \in {"scrape_node", "scrape_rows", "scrape_detail", "scrape_ret"}

\* C17: throughout a harvest, of any tree and any selection, the counter
\* "current" is at most "total", the size of the selection
C17_CurrentWithinTotal ==
    InScrape =>
        /\ progress.total = Cardinality(selected_paths)
        /\ progress.current <= progress.total

-----------------------------------------------------------------------------
\* Properties of one listing row (SpecRow)

\* the occurrences the detail page of the last row gave
EmitGruppen == IF lastEmit.detail.ok THEN lastEmit.detail.gruppen ELSE <<>>

\* their group labels
EmitLabels == {EmitGruppen[i].gruppe : i \in 1..Len(EmitGruppen)}

\* record r has the schedule fields of occurrence g
SameSchedule(r, g) ==
    /\ r.tag = g.tag
    /\ r.zeit = g.zeit
    /\ r.rhythmus = g.rhythmus
    /\ r.raum = g.raum

\* C4: a row whose detail page has N >= 2 distinct non-empty group labels
\* yields exactly N records, one per label, each with the row's code, title
\* and category and the schedule of an occurrence of its own group
C4_OneRecordPerGroup ==
    (Cardinality(EmitLabels \ {<<>>}) >= 2) =>
        /\ Len(lastEmit.recs) = Cardinality(EmitLabels \ {<<>>})
        /\ \A l \in EmitLabels \ {<<>>} :
             \E i \in 1..Len(lastEmit.recs) :
                LET r == lastEmit.recs[i]
                IN  /\ r.gruppe = l
                    /\ r.kennung = IF Kennung(lastEmit.row.link_text) # <<>>
                                   THEN Kennung(lastEmit.row.link_text)
                                   ELSE lastEmit.path[Len(lastEmit.path)]
                    /\ r.titel = Titel(lastEmit.row.link_text)
                    /\ r.veranstaltungsart = lastEmit.row.art
                    /\ \E k \in 1..Len(EmitGruppen) :
                          EmitGruppen[k].gruppe = l /\ SameSchedule(r, EmitGruppen[k])

\* C5: a row whose detail page has k >= 1 occurrences, all without a label or
\* all with the same label, yields exactly one record: its schedule is the
\* first occurrence's and weitere_termine holds the other k-1 in order
C5_SingleRecord ==
    (EmitGruppen # <<>> /\ Cardinality(EmitLabels) = 1) =>
        /\ Len(lastEmit.recs) = 1
        /\ SameSchedule(lastEmit.recs[1], EmitGruppen[1])
        /\ lastEmit.recs[1].weitere_termine = Tail(EmitGruppen)

-----------------------------------------------------------------------------
\* Properties of the tree conversions (SpecTree)

\* C12: dict_to_tree(tree_to_dict(t)) has a node wherever t has one and
\* nowhere else (same children, in the same order), each with the name, the
\* identifier and the event flag of the node of t there, and with the url
\* that _build_tree_url derives from its identifier
C12_RoundTrip ==
    pc = "tree_ret" =>
        LET back == user_caches["u1"].tree.val
        IN  /\ {n.pos : n \in back} = {n.pos : n \in tree_arg}
            /\ Cardinality(back) = Cardinality(tree_arg)
            /\ \A n \in tree_arg :
                 LET b == NodeAt(back, n.pos)
                 IN  /\ b.name = n.name
                     /\ b.root_path = n.root_path
                     /\ b.has_veranstaltungen = n.has_veranstaltungen
                     /\ b.url = build_tree_url(b.root_path)

\* C12, its case: a tree of three nodes, one of them a flagged child, has
\* been converted and reconstructed
C12_Witness ==
    /\ pc = "tree_ret"
    /\ Cardinality(tree_arg) = 3
    /\ \E n \in tree_arg : Len(n.pos) = 2 /\ n.has_veranstaltungen

-----------------------------------------------------------------------------
\* Properties of _find_tree_children (SpecFind)

\* the decoded segments of an identifier
SegmentsOf(root_path) == split(unquote(root_path))

\* the identifier _find_tree_children was given when it returned node n
ParentRoot(n) ==
    IF Len(n.pos) = 1 THEN RootOf(root)
    ELSE NodeAt(top_nodes, SubSeq(n.pos, 1, Len(n.pos) - 1)).root_path

\* C16: every node _find_tree_children returns has the segments of the
\* parent identifier followed by exactly one more segment
C16_SegmentPrefix ==
    InScan =>
        \A n \in top_nodes :
            ~IsPlaceholder(n) =>
                /\ Len(SegmentsOf(n.root_path)) = Len(SegmentsOf(ParentRoot(n))) + 1
                /\ SubSeq(SegmentsOf(n.root_path), 1, Len(SegmentsOf(ParentRoot(n))))
                     = SegmentsOf(ParentRoot(n))

=============================================================================
